---- MODULE Spec2Model ----
(***************************************************************************)
(* Model of wedopp (include/wedopp.hpp): the File / Processor / Device /   *)
(* Hub classes and findHubs(), on both platform branches of the header.    *)
(* Buffers are the 9-byte std::array's; C offset i is element i+1 here.    *)
(***************************************************************************)
EXTENDS Integers, Sequences, FiniteSets, TLC

VARIABLES
    platform,     \* which #ifdef branch was compiled: "windows" or "linux"
    pc,           \* position inside findHubs, or "returned" / "failed"
    enumerated,   \* descriptors the platform enumeration has yielded so far
    cur,          \* descriptor of the iteration in progress
    file,         \* fd held by the local `file` of the try block
    hubs,         \* std::vector<Hub> hubs (after return: the caller's result)
    procs,        \* heap: address -> detail::Processor
    channels,     \* open fd -> last report transmitted on it
    badClose,     \* close() was called on an fd that was not open
    ub,           \* a dangling Processor pointer was dereferenced / deleted
    enumErr,      \* the enumeration facility reported a real error
    ret,          \* outcome of the last Device operation
    lastWritten,  \* Processor address -> value last passed to writeValue, per slot
    relocated,    \* some Hub was moved to other storage after its construction
    prev,         \* outcome of the Device operation before the last one
    thr,          \* two caller threads driving the Devices of one Hub
    objs,         \* detail::File objects of a caller: "dead", or the fd held
    quota,        \* descriptors the enumeration may yield
    budget        \* Device operations / Hub moves still allowed

vars == <<platform, pc, enumerated, cur, file, hubs, procs, channels,
          badClose, ub, enumErr, ret, lastWritten, relocated, prev, thr, objs,
          quota, budget>>

----------------------------------------------------------------------------
(* Bounds *)

MaxCands == 3
MaxLifeCands == 2
MaxOps == 2
MaxIO == 4
MaxSeq == 3
MaxThreadOps == 2
MaxFileOps == 4
NumFiles == 2

----------------------------------------------------------------------------
(* Program constants *)

vendorId == 1684
productId == 3
BufferSize == 9
NoFd == -1
NullPtr == 0

Byte == 0..255
Slots == {0, 1}

ZeroBuffer == [i \in 1..BufferSize |-> 0]

\* std::array operator[] with a C offset
At(buf, off) == buf[off + 1]

\* a value stored into a __s16 / std::int16_t
ToS16(x) == LET m == x % 65536 IN IF m >= 32768 THEN m - 65536 ELSE m

----------------------------------------------------------------------------
(* Device::getDeviceType *)

\* faulty variant: 231 falls through to the motor codes
getDeviceTypeBroken(b) ==
    CASE b \in {38, 39} -> "tiltSensor"
      [] b \in {102, 103} -> "servoMotor"
      [] b \in {177, 178, 179, 180} -> "distanceSensor"
      [] b \in {202, 203, 204, 205} -> "light"
      [] b \in {0, 1, 2, 3, 231, 239, 240, 241} -> "motor"
      [] OTHER -> "none"

getDeviceType(b) ==
    CASE b = 38 -> "tiltSensor"
      [] b = 39 -> "tiltSensor"
      [] b = 102 -> "servoMotor"
      [] b = 103 -> "servoMotor"
      [] b = 177 -> "distanceSensor"
      [] b = 178 -> "distanceSensor"
      [] b = 179 -> "distanceSensor"
      [] b = 180 -> "distanceSensor"
      [] b = 202 -> "light"
      [] b = 203 -> "light"
      [] b = 204 -> "light"
      [] b = 205 -> "light"
      [] b = 231 -> "none"
      [] b = 0 -> "motor"
      [] b = 1 -> "motor"
      [] b = 2 -> "motor"
      [] b = 3 -> "motor"
      [] b = 239 -> "motor"
      [] b = 240 -> "motor"
      [] b = 241 -> "motor"
      [] OTHER -> "none"

----------------------------------------------------------------------------
(* detail::File: an object is its fd.  st = [procs, channels, badClose, ub] *)

\* open() / new hand out the lowest descriptor / a free address
LowestFree(used) == CHOOSE n \in 1..(Cardinality(used) + 1) :
                        n \notin used /\ \A m \in 1..(n - 1) : m \in used

Close(fd, st) ==
    IF fd \in DOMAIN st.channels
    THEN [st EXCEPT !.channels = [x \in DOMAIN st.channels \ {fd} |-> st.channels[x]]]
    ELSE [st EXCEPT !.badClose = TRUE]

FileDtor(fd, st) == IF fd # NoFd THEN Close(fd, st) ELSE st

\* faulty variant: the source keeps its fd
FileMoveCtorKeepsSource(other) == [self |-> other, other |-> other]

\* File(File&& other): fd{other.fd}, other.fd = -1
FileMoveCtor(other) == [self |-> other, other |-> NoFd]

----------------------------------------------------------------------------
(* detail::Processor *)

NewProcessor(f) == [file |-> f, readBuffer |-> ZeroBuffer, writeBuffer |-> ZeroBuffer]

ProcessorDtor(p, st) ==
    IF p \in DOMAIN st.procs
    THEN LET st1 == FileDtor(st.procs[p].file, st)
         IN  [st1 EXCEPT !.procs = [x \in DOMAIN st.procs \ {p} |-> st.procs[x]]]
    ELSE [st EXCEPT !.ub = TRUE]

\* ::read / ::write do not return -1: the transfer works and the fd is open
SysOk(fd, ok, st) == ok /\ fd \in DOMAIN st.channels

\* faulty variant: the result of ::read is not looked at
FileReadUnchecked(proc, io, st) ==
    IF SysOk(proc.file, io.ok, st)
    THEN [proc |-> [proc EXCEPT !.readBuffer = io.report], threw |-> FALSE,
          n |-> 1, failed |-> FALSE]
    ELSE [proc |-> proc, threw |-> FALSE, n |-> 1, failed |-> TRUE]

\* faulty variant: a report already in the buffer is reused
FileReadCached(proc, io, st) ==
    IF proc.readBuffer # ZeroBuffer
    THEN [proc |-> proc, threw |-> FALSE, n |-> 0, failed |-> FALSE]
    ELSE IF SysOk(proc.file, io.ok, st)
         THEN [proc |-> [proc EXCEPT !.readBuffer = io.report], threw |-> FALSE,
               n |-> 1, failed |-> FALSE]
         ELSE [proc |-> proc, threw |-> TRUE, n |-> 1, failed |-> TRUE]

\* file.read(readBuffer): io = [ok, report]; n counts the calls of ::read
FileRead(proc, io, st) ==
    IF SysOk(proc.file, io.ok, st)
    THEN [proc |-> [proc EXCEPT !.readBuffer = io.report], threw |-> FALSE,
          n |-> 1, failed |-> FALSE]
    ELSE [proc |-> proc, threw |-> TRUE, n |-> 1, failed |-> TRUE]

\* faulty variant: the value offset is used for the type
readTypeWrongOffset(proc, slot, io, st) ==
    LET r == FileRead(proc, io, st)
    IN  [proc |-> r.proc, threw |-> r.threw, n |-> r.n, failed |-> r.failed,
         index |-> 3 + slot * 2, value |-> At(r.proc.readBuffer, 3 + slot * 2)]

readType(proc, slot, io, st) ==
    LET r == FileRead(proc, io, st)
    IN  [proc |-> r.proc, threw |-> r.threw, n |-> r.n, failed |-> r.failed,
         index |-> 4 + slot * 2, value |-> At(r.proc.readBuffer, 4 + slot * 2)]

\* faulty variant: the slot is ignored
readValueSlotZero(proc, slot, io, st) ==
    LET r == FileRead(proc, io, st)
    IN  [proc |-> r.proc, threw |-> r.threw, n |-> r.n, failed |-> r.failed,
         index |-> 3, value |-> At(r.proc.readBuffer, 3)]

readValue(proc, slot, io, st) ==
    LET r == FileRead(proc, io, st)
    IN  [proc |-> r.proc, threw |-> r.threw, n |-> r.n, failed |-> r.failed,
         index |-> 3 + slot * 2, value |-> At(r.proc.readBuffer, 3 + slot * 2)]

\* faulty variant: the report is rebuilt from zero on every call
writeValueFreshBuffer(proc, slot, value, ok, st) ==
    LET b1 == [ZeroBuffer EXCEPT ![1 + 1] = 64]
        b2 == [b1 EXCEPT ![2 + slot + 1] = value]
        sent == SysOk(proc.file, ok, st)
    IN  [proc |-> [proc EXCEPT !.writeBuffer = b2],
         threw |-> ~sent, n |-> 1, failed |-> ~sent, index |-> 2 + slot,
         st |-> IF sent THEN [st EXCEPT !.channels[proc.file] = b2] ELSE st,
         report |-> IF sent THEN b2 ELSE <<>>]

\* faulty variant: the command byte is stored at offset 0
writeValueHeaderAtZero(proc, slot, value, ok, st) ==
    LET b1 == [proc.writeBuffer EXCEPT ![0 + 1] = 64]
        b2 == [b1 EXCEPT ![2 + slot + 1] = value]
        sent == SysOk(proc.file, ok, st)
    IN  [proc |-> [proc EXCEPT !.writeBuffer = b2],
         threw |-> ~sent, n |-> 1, failed |-> ~sent, index |-> 2 + slot,
         st |-> IF sent THEN [st EXCEPT !.channels[proc.file] = b2] ELSE st,
         report |-> IF sent THEN b2 ELSE <<>>]

\* faulty variant: a failed transmission restores the buffer
writeValueRollsBack(proc, slot, value, ok, st) ==
    LET b1 == [proc.writeBuffer EXCEPT ![1 + 1] = 64]
        b2 == [b1 EXCEPT ![2 + slot + 1] = value]
        sent == SysOk(proc.file, ok, st)
    IN  [proc |-> IF sent THEN [proc EXCEPT !.writeBuffer = b2] ELSE proc,
         threw |-> ~sent, n |-> 1, failed |-> ~sent, index |-> 2 + slot,
         st |-> IF sent THEN [st EXCEPT !.channels[proc.file] = b2] ELSE st,
         report |-> IF sent THEN b2 ELSE <<>>]

writeValue(proc, slot, value, ok, st) ==
    LET b1 == [proc.writeBuffer EXCEPT ![1 + 1] = 64]
        b2 == [b1 EXCEPT ![2 + slot + 1] = value]
        sent == SysOk(proc.file, ok, st)
    IN  [proc |-> [proc EXCEPT !.writeBuffer = b2],
         threw |-> ~sent, n |-> 1, failed |-> ~sent, index |-> 2 + slot,
         st |-> IF sent THEN [st EXCEPT !.channels[proc.file] = b2] ELSE st,
         report |-> IF sent THEN b2 ELSE <<>>]

----------------------------------------------------------------------------
(* Device and Hub *)

Device(s, p) == [slot |-> s, processor |-> p]

\* faulty variant: both devices built for slot 0
HubCtorSameSlot(n, p, f, st) ==
    LET a == FileMoveCtor(f)
        b == FileMoveCtor(a.self)
        addr == LowestFree(DOMAIN st.procs)
        st1 == [st EXCEPT !.procs = (addr :> NewProcessor(b.self)) @@ st.procs]
        st2 == FileDtor(b.other, st1)
    IN  [hub |-> [name |-> n, path |-> p,
                  devices |-> <<Device(0, addr), Device(0, addr)>>,
                  processor |-> addr],
         st |-> st2, f |-> a.other]

\* faulty variant: the Devices are numbered from 1
HubCtorOneBased(n, p, f, st) ==
    LET a == FileMoveCtor(f)
        b == FileMoveCtor(a.self)
        addr == LowestFree(DOMAIN st.procs)
        st1 == [st EXCEPT !.procs = (addr :> NewProcessor(b.self)) @@ st.procs]
        st2 == FileDtor(b.other, st1)
    IN  [hub |-> [name |-> n, path |-> p,
                  devices |-> <<Device(1, addr), Device(2, addr)>>,
                  processor |-> addr],
         st |-> st2, f |-> a.other]

\* Hub(n, p, f): processor{new Processor(std::move(f))}, then the two push_back's
HubCtor(n, p, f, st) ==
    LET a == FileMoveCtor(f)          \* Processor(File f) parameter
        b == FileMoveCtor(a.self)     \* file{std::move(f)}
        addr == LowestFree(DOMAIN st.procs)
        st1 == [st EXCEPT !.procs = (addr :> NewProcessor(b.self)) @@ st.procs]
        st2 == FileDtor(b.other, st1) \* the parameter of Processor's constructor dies
    IN  [hub |-> [name |-> n, path |-> p,
                  devices |-> <<Device(0, addr), Device(1, addr)>>,
                  processor |-> addr],
         st |-> st2, f |-> a.other]

MovedFromHub == [name |-> 0, path |-> 0, devices |-> <<>>, processor |-> NullPtr]

\* faulty variant: the device vector is left behind in the source
HubMoveDropsDevices(h) == [self |-> [h EXCEPT !.devices = <<>>], other |-> MovedFromHub]

\* faulty variant: the source keeps its pointer to the Processor
HubMoveKeepsPointer(h) ==
    [self |-> h, other |-> [MovedFromHub EXCEPT !.processor = h.processor]]

\* the implicit member-wise move constructor of Hub
HubMove(h) == [self |-> h, other |-> MovedFromHub]

\* ~Hub: unique_ptr<Processor> deletes the Processor, whose File closes the fd
HubDtor(h, st) == IF h.processor # NullPtr THEN ProcessorDtor(h.processor, st) ELSE st

RECURSIVE DestroyHubs(_, _)
DestroyHubs(hs, st) ==
    IF hs = <<>> THEN st ELSE DestroyHubs(Tail(hs), HubDtor(Head(hs), st))

\* std::vector<Hub> reallocation: every element is move-constructed into the
\* new storage and the old element destroyed
Reallocate(hs, st) ==
    LET mv == [i \in 1..Len(hs) |-> HubMove(hs[i])]
    IN  [hubs |-> [i \in 1..Len(hs) |-> mv[i].self],
         st |-> DestroyHubs([i \in 1..Len(hs) |-> mv[i].other], st)]

\* faulty variant: the new Hub is put in front of the ones already collected
PushBackFront(hs, temp, realloc, st) ==
    LET r == IF realloc THEN Reallocate(hs, st) ELSE [hubs |-> hs, st |-> st]
        m == HubMove(temp)
    IN  [hubs |-> <<m.self>> \o r.hubs, st |-> HubDtor(m.other, r.st)]

\* hubs.push_back(Hub&&), with or without reallocation; the temporary dies after
PushBack(hs, temp, realloc, st) ==
    LET r == IF realloc THEN Reallocate(hs, st) ELSE [hubs |-> hs, st |-> st]
        m == HubMove(temp)
    IN  [hubs |-> Append(r.hubs, m.self), st |-> HubDtor(m.other, r.st)]

----------------------------------------------------------------------------
(* The simulated platform: what each enumerated descriptor will do *)

Kinds == {"nothid", "nodetail", "noopen", "noid", "badvendor", "badproduct",
          "noname", "noenc", "good"}

\* "nothid" is a /dev/usb entry without the hid prefix (Linux); "nodetail" and
\* "noenc" are failures of calls only the Windows branch makes
KindsOf(pf) == IF pf = "linux" THEN Kinds \ {"nodetail", "noenc"} ELSE Kinds \ {"nothid"}

\* the descriptor with path i: idVendor / idProduct are the 16-bit USB fields
Cand(i, k) ==
    [path |-> i, kind |-> k,
     hid |-> k # "nothid",
     detail |-> k # "nodetail",
     opens |-> k \notin {"nothid", "nodetail", "noopen"},
     idq |-> k \notin {"nothid", "nodetail", "noopen", "noid"},
     idVendor |-> IF k = "badvendor" THEN 34452 ELSE 1684,
     idProduct |-> IF k = "badproduct" THEN 4 ELSE 3,
     nameq |-> IF k = "noname" THEN "fail" ELSE IF k = "noenc" THEN "enc" ELSE "ok"]

NoCand == Cand(0, "nothid")

NoRet == [op |-> "none", hub |-> 0, slot |-> 0, status |-> "none", value |-> 0,
          report |-> <<>>, failed |-> FALSE, transfers |-> 0, index |-> 0]

\* no caller threads and no File objects of a caller
NoThreads == <<>>
NoObjs == <<>>

St == [procs |-> procs, channels |-> channels, badClose |-> badClose, ub |-> ub]

SetSt(st) ==
    /\ procs' = st.procs
    /\ channels' = st.channels
    /\ badClose' = st.badClose
    /\ ub' = st.ub

----------------------------------------------------------------------------
(* findHubs *)

\* faulty variant: either id matching is enough
IdMatchesEither(pf, c) ==
    IF pf = "linux"
    THEN ToS16(c.idVendor) = vendorId \/ ToS16(c.idProduct) = productId
    ELSE c.idq /\ (c.idVendor = vendorId \/ c.idProduct = productId)

\* the filter: devinfo.vendor / devinfo.product are __s16 on Linux,
\* attributes.VendorID / ProductID are USHORT on Windows
IdMatches(pf, c) ==
    IF pf = "linux"
    THEN ToS16(c.idVendor) = ToS16(vendorId) /\ ToS16(c.idProduct) = ToS16(productId)
    ELSE c.idq /\ c.idVendor = ToS16(vendorId) /\ c.idProduct = ToS16(productId)

\* faulty variant: the name query's result is not checked
NameFailsNever(pf, c) == FALSE

\* the name query (and, on Windows, the two UTF-8 conversions) throws
NameFails(pf, c) ==
    IF pf = "linux" THEN c.nameq = "fail" ELSE c.nameq \in {"fail", "enc"}

\* faulty variant: an exception escapes the per-candidate try block
CatchCandidateRethrows(st) == [pc |-> "failed", hubs |-> <<>>, st |-> DestroyHubs(hubs, st)]

\* catch (...) {} around one candidate: the scan goes on with the next descriptor
CatchCandidate(st) == [pc |-> "enum", hubs |-> hubs, st |-> st]

\* faulty variant: the fd is not closed when the try block is left
LeaveTryLeaks(f, st) == st

\* the try block is left, normally or by a throw: `file` is destroyed
LeaveTry(f, st) == FileDtor(f, st)

\* an exception leaves findHubs: the local vector is destroyed while unwinding
Propagate ==
    /\ pc' = "failed"
    /\ hubs' = <<>>
    /\ SetSt(DestroyHubs(hubs, St))
    /\ UNCHANGED <<file, cur>>

\* return hubs;
Return ==
    /\ pc' = "returned"
    /\ UNCHANGED <<hubs, procs, channels, badClose, ub, file, cur>>

\* readdir returned NULL: end of directory and error are not told apart
LinuxReaddirNull(isErr) ==
    /\ enumErr' = (enumErr \/ isErr)
    /\ Return

\* SetupDiEnumDeviceInterfaces failed: ERROR_NO_MORE_ITEMS breaks, the rest throws
WindowsEnumFailed(isErr) ==
    IF isErr THEN enumErr' = TRUE /\ Propagate ELSE enumErr' = enumErr /\ Return

\* opendir / SetupDiGetClassDevs
Start ==
    /\ pc = "start"
    /\ \E ok \in BOOLEAN :
        IF ok THEN pc' = "enum" /\ enumErr' = enumErr
        ELSE pc' = "failed" /\ enumErr' = TRUE
    /\ UNCHANGED <<prev, thr, objs, quota, relocated, platform, enumerated, cur, file, hubs, procs, channels,
                   badClose, ub, ret, lastWritten, budget>>

\* the enumeration ends, by exhaustion or by an error
EnumStop ==
    /\ pc = "enum"
    /\ \E isErr \in BOOLEAN :
        IF platform = "linux" THEN LinuxReaddirNull(isErr) ELSE WindowsEnumFailed(isErr)
    /\ UNCHANGED <<prev, thr, objs, quota, relocated, platform, enumerated, ret, lastWritten, budget>>

\* the enumeration yields the next descriptor
EnumNext ==
    /\ pc = "enum"
    /\ Len(enumerated) < quota
    /\ \E k \in KindsOf(platform) :
        LET c == Cand(Len(enumerated) + 1, k)
        IN  /\ enumerated' = Append(enumerated, c)
            /\ IF platform = "linux"
               THEN \* strncmp("hid", ent->d_name, 3) == 0
                    /\ IF c.hid THEN pc' = "open" /\ cur' = c
                                ELSE pc' = "enum" /\ cur' = cur
                    /\ UNCHANGED <<hubs, procs, channels, badClose, ub, file, enumErr>>
               ELSE \* SetupDiGetDeviceInterfaceDetailA, twice
                    IF c.detail
                    THEN /\ pc' = "open" /\ cur' = c
                         /\ UNCHANGED <<hubs, procs, channels, badClose, ub, file, enumErr>>
                    ELSE enumErr' = TRUE /\ Propagate
    /\ UNCHANGED <<prev, thr, objs, quota, relocated, platform, ret, lastWritten, budget>>

\* detail::File file{...}
OpenFile ==
    /\ pc = "open"
    /\ IF cur.opens
       THEN LET fd == LowestFree(DOMAIN channels)
            IN  /\ file' = fd
                /\ channels' = (fd :> <<>>) @@ channels
                /\ pc' = "id"
                /\ UNCHANGED <<hubs, procs, badClose, ub>>
       ELSE LET c == CatchCandidate(St)
            IN  pc' = c.pc /\ hubs' = c.hubs /\ SetSt(c.st) /\ file' = file
    /\ UNCHANGED <<prev, thr, objs, quota, relocated, platform, enumerated, cur, enumErr, ret, lastWritten, budget>>

\* HIDIOCGDEVINFO / HidD_GetAttributes and the comparison with the target ids
QueryId ==
    /\ pc = "id"
    /\ IF platform = "linux" /\ ~cur.idq
       THEN LET c == CatchCandidate(LeaveTry(file, St))
            IN  pc' = c.pc /\ hubs' = c.hubs /\ SetSt(c.st) /\ file' = NoFd
       ELSE IF IdMatches(platform, cur)
            THEN pc' = "name" /\ UNCHANGED <<hubs, procs, channels, badClose, ub, file>>
            ELSE /\ pc' = "enum" /\ hubs' = hubs
                 /\ SetSt(LeaveTry(file, St)) /\ file' = NoFd
    /\ UNCHANGED <<prev, thr, objs, quota, relocated, platform, enumerated, cur, enumErr, ret, lastWritten, budget>>

\* HIDIOCGNAME / HidD_GetProductString + WideCharToMultiByte
QueryName ==
    /\ pc = "name"
    /\ IF NameFails(platform, cur)
       THEN LET c == CatchCandidate(LeaveTry(file, St))
            IN  pc' = c.pc /\ hubs' = c.hubs /\ SetSt(c.st) /\ file' = NoFd
       ELSE pc' = "push" /\ UNCHANGED <<hubs, procs, channels, badClose, ub, file>>
    /\ UNCHANGED <<prev, thr, objs, quota, relocated, platform, enumerated, cur, enumErr, ret, lastWritten, budget>>

\* hubs.push_back(Hub{deviceName, filename, std::move(file)});
PushHub ==
    /\ pc = "push"
    /\ \E realloc \in BOOLEAN :
        LET f == FileMoveCtor(file)                 \* the constructor's parameter f
            h == HubCtor(cur.path, cur.path, f.self, St)
            pb == PushBack(hubs, h.hub, realloc, h.st)
            st1 == FileDtor(h.f, pb.st)             \* the parameter dies
            st2 == LeaveTry(f.other, st1)           \* `file` dies
        IN  /\ hubs' = pb.hubs
            /\ SetSt(st2)
            /\ lastWritten' = (h.hub.processor :> <<0, 0>>) @@ lastWritten
            /\ relocated' = (relocated \/ (realloc /\ hubs # <<>>))
    /\ file' = NoFd
    /\ pc' = "enum"
    /\ UNCHANGED <<prev, thr, objs, quota, platform, enumerated, cur, enumErr, ret, budget>>

----------------------------------------------------------------------------
(* Operations on the Devices of a returned Hub.  io = [ok, report] is what   *)
(* the channel does with the read; ok says whether the write succeeds.       *)

Deref(h, d) == hubs[h].devices[d]

Dangling(h, d, name) ==
    /\ ub' = TRUE
    /\ ret' = [NoRet EXCEPT !.op = name, !.hub = h, !.status = "ub"]
    /\ UNCHANGED <<procs, channels, badClose, lastWritten>>

\* Device::getType: getDeviceType(processor->readType(slot))
getType(h, d, io) ==
    /\ pc = "returned"
    /\ h \in 1..Len(hubs) /\ d \in 1..Len(hubs[h].devices)
    /\ LET dev == Deref(h, d)
           p == dev.processor
       IN  IF p \notin DOMAIN procs THEN Dangling(h, d, "getType")
           ELSE LET r == readType(procs[p], dev.slot, io, St)
                IN  /\ procs' = [procs EXCEPT ![p] = r.proc]
                    /\ ret' = [op |-> "getType", hub |-> h, slot |-> dev.slot,
                               status |-> IF r.threw THEN "error" ELSE "ok",
                               value |-> IF r.threw THEN 0
                                         ELSE [raw |-> r.value, type |-> getDeviceType(r.value)],
                               report |-> IF r.threw THEN <<>> ELSE io.report,
                               failed |-> r.failed, transfers |-> r.n, index |-> r.index]
                    /\ UNCHANGED <<channels, badClose, ub, lastWritten>>
    /\ UNCHANGED <<thr, objs, quota, relocated, platform, pc, enumerated, cur, file, hubs, enumErr>>

\* Device::getValue: processor->readValue(slot)
getValue(h, d, io) ==
    /\ pc = "returned"
    /\ h \in 1..Len(hubs) /\ d \in 1..Len(hubs[h].devices)
    /\ LET dev == Deref(h, d)
           p == dev.processor
       IN  IF p \notin DOMAIN procs THEN Dangling(h, d, "getValue")
           ELSE LET r == readValue(procs[p], dev.slot, io, St)
                IN  /\ procs' = [procs EXCEPT ![p] = r.proc]
                    /\ ret' = [op |-> "getValue", hub |-> h, slot |-> dev.slot,
                               status |-> IF r.threw THEN "error" ELSE "ok",
                               value |-> IF r.threw THEN 0 ELSE r.value,
                               report |-> IF r.threw THEN <<>> ELSE io.report,
                               failed |-> r.failed, transfers |-> r.n, index |-> r.index]
                    /\ UNCHANGED <<channels, badClose, ub, lastWritten>>
    /\ UNCHANGED <<thr, objs, quota, relocated, platform, pc, enumerated, cur, file, hubs, enumErr>>

\* Device::setValue: processor->writeValue(slot, value)
setValue(h, d, v, ok) ==
    /\ pc = "returned"
    /\ h \in 1..Len(hubs) /\ d \in 1..Len(hubs[h].devices)
    /\ LET dev == Deref(h, d)
           p == dev.processor
       IN  IF p \notin DOMAIN procs THEN Dangling(h, d, "setValue")
           ELSE LET r == writeValue(procs[p], dev.slot, v, ok, St)
                IN  /\ procs' = [r.st.procs EXCEPT ![p] = r.proc]
                    /\ channels' = r.st.channels
                    /\ ret' = [op |-> "setValue", hub |-> h, slot |-> dev.slot,
                               status |-> IF r.threw THEN "error" ELSE "ok",
                               value |-> v, report |-> r.report,
                               failed |-> r.failed, transfers |-> r.n, index |-> r.index]
                    /\ lastWritten' = [lastWritten EXCEPT ![p][dev.slot + 1] = v]
                    /\ UNCHANGED <<badClose, ub>>
    /\ UNCHANGED <<thr, objs, quota, relocated, platform, pc, enumerated, cur, file, hubs, enumErr>>

\* the caller's collection relocates its Hubs (growth, erase, sort)
MoveHubs ==
    /\ pc = "returned"
    /\ budget > 0
    /\ hubs # <<>>
    /\ LET r == Reallocate(hubs, St)
       IN  hubs' = r.hubs /\ SetSt(r.st)
    /\ budget' = budget - 1
    /\ relocated' = TRUE
    /\ UNCHANGED <<prev, thr, objs, quota, platform, pc, enumerated, cur, file, enumErr, ret, lastWritten>>

----------------------------------------------------------------------------
(* Inputs of the device operations *)

ReportA == <<9, 8, 7, 11, 38, 12, 102, 6, 5>>
ReportB == <<1, 2, 3, 21, 202, 22, 239, 4, 5>>
Reports == {ReportA, ReportB}
IOs == {[ok |-> TRUE, report |-> r] : r \in Reports} \cup {[ok |-> FALSE, report |-> <<>>]}
Values == {10, 20}

DoGetType ==
    /\ budget > 0
    /\ \E h \in 1..Len(hubs), d \in 1..2, io \in IOs : getType(h, d, io)
    /\ budget' = budget - 1
    /\ UNCHANGED prev

DoGetValue ==
    /\ budget > 0
    /\ \E h \in 1..Len(hubs), d \in 1..2, io \in IOs : getValue(h, d, io)
    /\ budget' = budget - 1
    /\ UNCHANGED prev

DoSetValue ==
    /\ budget > 0
    /\ \E h \in 1..Len(hubs), d \in 1..2, v \in Values, ok \in BOOLEAN : setValue(h, d, v, ok)
    /\ budget' = budget - 1
    /\ UNCHANGED prev

----------------------------------------------------------------------------
(* The whole program: findHubs, then use of the returned Hubs *)

Init ==
    /\ platform \in {"windows", "linux"}
    /\ pc = "start"
    /\ enumerated = <<>>
    /\ cur = NoCand
    /\ file = NoFd
    /\ hubs = <<>>
    /\ procs = <<>>
    /\ channels = <<>>
    /\ badClose = FALSE
    /\ ub = FALSE
    /\ enumErr = FALSE
    /\ ret = NoRet
    /\ lastWritten = <<>>
    /\ relocated = FALSE
    /\ prev = NoRet
    /\ thr = NoThreads
    /\ objs = NoObjs
    /\ quota = MaxLifeCands
    /\ budget = MaxOps

Next ==
    \/ Start
    \/ EnumStop
    \/ EnumNext
    \/ OpenFile
    \/ QueryId
    \/ QueryName
    \/ PushHub
    \/ DoGetType
    \/ DoGetValue
    \/ DoSetValue
    \/ MoveHubs

Spec == Init /\ [][Next]_vars

----------------------------------------------------------------------------
(* findHubs alone *)

ScanInit ==
    /\ platform \in {"windows", "linux"}
    /\ pc = "start"
    /\ enumerated = <<>>
    /\ cur = NoCand
    /\ file = NoFd
    /\ hubs = <<>>
    /\ procs = <<>>
    /\ channels = <<>>
    /\ badClose = FALSE
    /\ ub = FALSE
    /\ enumErr = FALSE
    /\ ret = NoRet
    /\ lastWritten = <<>>
    /\ relocated = FALSE
    /\ prev = NoRet
    /\ thr = NoThreads
    /\ objs = NoObjs
    /\ quota = MaxCands
    /\ budget = 0

ScanNext ==
    \/ Start
    \/ EnumStop
    \/ EnumNext
    \/ OpenFile
    \/ QueryId
    \/ QueryName
    \/ PushHub

SpecScan == ScanInit /\ [][ScanNext]_vars

----------------------------------------------------------------------------
(* One Hub, as findHubs returns it for a single matching descriptor *)

OneHub(n) ==
    /\ platform \in {"windows", "linux"}
    /\ pc = "returned"
    /\ enumerated = <<Cand(1, "good")>>
    /\ cur = Cand(1, "good")
    /\ file = NoFd
    /\ LET h == HubCtor(1, 1, 1, [procs |-> <<>>, channels |-> (1 :> <<>>),
                                  badClose |-> FALSE, ub |-> FALSE])
           pb == PushBack(<<>>, h.hub, FALSE, h.st)
       IN  /\ hubs = pb.hubs
           /\ procs = pb.st.procs
           /\ channels = pb.st.channels
           /\ badClose = pb.st.badClose
           /\ ub = pb.st.ub
           /\ lastWritten = (h.hub.processor :> <<0, 0>>)
    /\ enumErr = FALSE
    /\ ret = NoRet
    /\ relocated = FALSE
    /\ prev = NoRet
    /\ thr = NoThreads
    /\ objs = NoObjs
    /\ quota = MaxLifeCands
    /\ budget = n

IOInit == OneHub(MaxIO)

IONext ==
    \/ DoGetType
    \/ DoGetValue
    \/ DoSetValue
    \/ MoveHubs

SpecIO == IOInit /\ [][IONext]_vars

----------------------------------------------------------------------------
(* Type decoding over every byte the channel can deliver *)

TypeReport(b) == [ReportA EXCEPT ![4 + 1] = b, ![6 + 1] = b]

DecodeInit == OneHub(1)

DecodeGetType ==
    /\ budget > 0
    /\ \E d \in 1..2, b \in Byte : getType(1, d, [ok |-> TRUE, report |-> TypeReport(b)])
    /\ budget' = budget - 1
    /\ UNCHANGED prev

DecodeNext == DecodeGetType

SpecDecode == DecodeInit /\ [][DecodeNext]_vars

----------------------------------------------------------------------------
(* One Hub on a stub channel that echoes the written slot bytes *)

PriorValues == {0, 10, 255}

\* the stub: write offsets 2 and 3 come back at read offsets 3 and 5
EchoReport(sent) ==
    IF sent = <<>> THEN ZeroBuffer
    ELSE [ZeroBuffer EXCEPT ![3 + 1] = At(sent, 2), ![5 + 1] = At(sent, 3)]

EchoInit == OneHub(4)

\* earlier writes, which leave their values in the write buffer
EchoPrior ==
    /\ budget >= 3
    /\ \E d \in 1..2, v \in PriorValues : setValue(1, d, v, TRUE)
    /\ budget' = budget - 1
    /\ UNCHANGED prev

EchoSet ==
    /\ budget >= 2
    /\ \E d \in 1..2, v \in Byte : setValue(1, d, v, TRUE)
    /\ budget' = 1
    /\ UNCHANGED prev

\* the read that follows the write immediately, on the same Device
EchoGet ==
    /\ budget = 1
    /\ ret.op = "setValue"
    /\ getValue(1, ret.slot + 1,
                [ok |-> TRUE, report |-> EchoReport(channels[procs[hubs[1].processor].file])])
    /\ budget' = 0
    /\ UNCHANGED prev

EchoNext ==
    \/ EchoPrior
    \/ EchoSet
    \/ EchoGet

SpecEcho == EchoInit /\ [][EchoNext]_vars

----------------------------------------------------------------------------
(* Properties *)

----------------------------------------------------------------------------
(* Consecutive calls on one Hub: prev keeps the outcome of the call before *)
(* the last one                                                            *)

SeqInit == OneHub(MaxSeq)

SeqGetType ==
    /\ budget > 0
    /\ \E h \in 1..Len(hubs), d \in 1..2, io \in IOs : getType(h, d, io)
    /\ budget' = budget - 1
    /\ prev' = ret

SeqGetValue ==
    /\ budget > 0
    /\ \E h \in 1..Len(hubs), d \in 1..2, io \in IOs : getValue(h, d, io)
    /\ budget' = budget - 1
    /\ prev' = ret

SeqSetValue ==
    /\ budget > 0
    /\ \E h \in 1..Len(hubs), d \in 1..2, v \in Values, ok \in BOOLEAN : setValue(h, d, v, ok)
    /\ budget' = budget - 1
    /\ prev' = ret

SeqNext ==
    \/ SeqGetType
    \/ SeqGetValue
    \/ SeqSetValue

SpecSeq == SeqInit /\ [][SeqNext]_vars

----------------------------------------------------------------------------
(* Two caller threads on the two Devices of one Hub. The operations of the  *)
(* Processor are taken step by step: the stores to the write buffer, the    *)
(* transfer (which begins and ends), the load from the read buffer. A       *)
(* caller that serialises takes one lock per Hub around each operation.     *)

Threads == {1, 2}

NoDone == [op |-> "none", slot |-> 0, status |-> "none", value |-> 0,
           report |-> <<>>, latest |-> <<>>]

IdleThread == [pc |-> "idle", op |-> "none", slot |-> 0, v |-> 0,
               mine |-> <<>>, snap |-> <<>>, done |-> NoDone]

\* the Processor of the Hub the threads share
Shared == hubs[1].processor

\* the caller's lock of the Hub: free, or held by a thread
CanEnter == thr.locking => thr.lock = 0
Enter(t) == IF thr.locking THEN t ELSE 0
Leave == 0

\* the index a read operation loads from
ReadIndex(op, slot) == IF op = "getType" THEN 4 + slot * 2 ELSE 3 + slot * 2

\* faulty variant: the buffer is cleared before the value is stored
StoreValueFresh(proc, slot, value) ==
    [proc EXCEPT !.writeBuffer =
        [[ZeroBuffer EXCEPT ![1 + 1] = 64] EXCEPT ![2 + slot + 1] = value]]

\* writeBuffer[1U] = 64U; writeBuffer[2U + slot] = value;
StoreValue(proc, slot, value) ==
    [proc EXCEPT !.writeBuffer =
        [[proc.writeBuffer EXCEPT ![1 + 1] = 64] EXCEPT ![2 + slot + 1] = value]]

ThreadFrame ==
    UNCHANGED <<platform, pc, enumerated, cur, file, hubs, badClose, ub, enumErr,
                ret, relocated, prev, objs, quota>>

\* the caller starts its two threads, with or without the lock
StartThreads ==
    /\ pc = "returned"
    /\ thr = NoThreads
    /\ \E l \in BOOLEAN :
        thr' = [locking |-> l, lock |-> 0, inflight |-> 0,
                t |-> [t \in Threads |-> IdleThread]]
    /\ UNCHANGED <<procs, channels, lastWritten, budget>>
    /\ ThreadFrame

\* a thread calls getType, getValue or setValue on a Device of the Hub
ThreadCall(t) ==
    /\ thr # NoThreads
    /\ thr.t[t].pc = "idle"
    /\ budget > 0
    /\ CanEnter
    /\ \E op \in {"getType", "getValue", "setValue"}, d \in 1..2, v \in Values :
        /\ op # "setValue" => v = 10
        /\ thr' = [thr EXCEPT !.lock = Enter(t),
                              !.t[t].pc = "called",
                              !.t[t].op = op,
                              !.t[t].slot = Deref(1, d).slot,
                              !.t[t].v = IF op = "setValue" THEN v ELSE 0]
    /\ budget' = budget - 1
    /\ UNCHANGED <<procs, channels, lastWritten>>
    /\ ThreadFrame

\* Processor::readType / readValue enter file.read(readBuffer)
BeginRead(t) ==
    /\ thr # NoThreads
    /\ thr.t[t].pc = "called" /\ thr.t[t].op # "setValue"
    /\ thr' = [thr EXCEPT !.inflight = @ + 1, !.t[t].pc = "reading"]
    /\ UNCHANGED <<procs, channels, lastWritten, budget>>
    /\ ThreadFrame

\* ::read returns: the report is in readBuffer, or File::read throws
EndRead(t) ==
    /\ thr # NoThreads
    /\ thr.t[t].pc = "reading"
    /\ \E io \in IOs :
        LET r == FileRead(procs[Shared], io, St)
        IN  /\ procs' = [procs EXCEPT ![Shared] = r.proc]
            /\ thr' = IF r.threw
                      THEN [thr EXCEPT !.inflight = @ - 1,
                                       !.lock = IF thr.lock = t THEN Leave ELSE @,
                                       !.t[t].pc = "idle",
                                       !.t[t].done = [NoDone EXCEPT !.op = thr.t[t].op,
                                                                   !.slot = thr.t[t].slot,
                                                                   !.status = "error"]]
                      ELSE [thr EXCEPT !.inflight = @ - 1,
                                       !.t[t].pc = "read",
                                       !.t[t].mine = io.report]
    /\ UNCHANGED <<channels, lastWritten, budget>>
    /\ ThreadFrame

\* return readBuffer[index]: the byte is loaded from the shared buffer
LoadResult(t) ==
    /\ thr # NoThreads
    /\ thr.t[t].pc = "read"
    /\ LET me == thr.t[t]
       IN  thr' = [thr EXCEPT !.lock = IF thr.lock = t THEN Leave ELSE @,
                              !.t[t].pc = "idle",
                              !.t[t].done =
                                  [NoDone EXCEPT !.op = me.op, !.slot = me.slot,
                                                 !.status = "ok",
                                                 !.report = me.mine,
                                                 !.value = At(procs[Shared].readBuffer,
                                                              ReadIndex(me.op, me.slot))]]
    /\ UNCHANGED <<procs, channels, lastWritten, budget>>
    /\ ThreadFrame

\* Processor::writeValue stores the command byte and the value
Store(t) ==
    /\ thr # NoThreads
    /\ thr.t[t].pc = "called" /\ thr.t[t].op = "setValue"
    /\ procs' = [procs EXCEPT ![Shared] = StoreValue(@, thr.t[t].slot, thr.t[t].v)]
    /\ lastWritten' = [lastWritten EXCEPT ![Shared][thr.t[t].slot + 1] = thr.t[t].v]
    /\ thr' = [thr EXCEPT !.t[t].pc = "stored"]
    /\ UNCHANGED <<channels, budget>>
    /\ ThreadFrame

\* file.write(writeBuffer) is entered: ::write takes the 9 bytes of the buffer
BeginWrite(t) ==
    /\ thr # NoThreads
    /\ thr.t[t].pc = "stored"
    /\ thr' = [thr EXCEPT !.inflight = @ + 1,
                          !.t[t].pc = "writing",
                          !.t[t].snap = procs[Shared].writeBuffer]
    /\ UNCHANGED <<procs, channels, lastWritten, budget>>
    /\ ThreadFrame

\* ::write returns: the report is on the channel, or File::write throws
EndWrite(t) ==
    /\ thr # NoThreads
    /\ thr.t[t].pc = "writing"
    /\ \E ok \in BOOLEAN :
        LET sent == SysOk(procs[Shared].file, ok, St)
            me == thr.t[t]
        IN  /\ channels' = IF sent THEN [channels EXCEPT ![procs[Shared].file] = me.snap]
                           ELSE channels
            /\ thr' = [thr EXCEPT !.inflight = @ - 1,
                                  !.lock = IF thr.lock = t THEN Leave ELSE @,
                                  !.t[t].pc = "idle",
                                  !.t[t].done =
                                      [NoDone EXCEPT !.op = "setValue", !.slot = me.slot,
                                                     !.value = me.v,
                                                     !.status = IF sent THEN "ok" ELSE "error",
                                                     !.report = IF sent THEN me.snap ELSE <<>>,
                                                     !.latest = lastWritten[Shared]]]
    /\ UNCHANGED <<procs, lastWritten, budget>>
    /\ ThreadFrame

ThreadInit == OneHub(MaxThreadOps)

ThreadNext ==
    \/ StartThreads
    \/ \E t \in Threads : ThreadCall(t)
    \/ \E t \in Threads : BeginRead(t)
    \/ \E t \in Threads : EndRead(t)
    \/ \E t \in Threads : LoadResult(t)
    \/ \E t \in Threads : Store(t)
    \/ \E t \in Threads : BeginWrite(t)
    \/ \E t \in Threads : EndWrite(t)

SpecThreads == ThreadInit /\ [][ThreadNext]_vars

\* the call keeps running until it returns or fails: no step of it blocks forever
SpecScanFair == ScanInit /\ [][ScanNext]_vars /\ WF_vars(ScanNext)

----------------------------------------------------------------------------
(* detail::File objects in the hands of a caller, next to a Hub: objs maps  *)
(* each live File object to the fd it holds                                 *)

FileIds == 1..NumFiles

\* File& operator=(File&& other): fd = other.fd; other.fd = -1
FileMoveAssign(self, other) == [self |-> other, other |-> NoFd]

FilesFrame ==
    UNCHANGED <<platform, pc, enumerated, cur, file, enumErr, ret, lastWritten,
                relocated, prev, thr, quota>>

\* File a{path}: the open succeeds and the object holds the new fd, or the
\* constructor throws and there is no object
FileCtor(i) ==
    /\ budget > 0
    /\ i \in FileIds \ DOMAIN objs
    /\ \E ok \in BOOLEAN :
        IF ok
        THEN LET fd == LowestFree(DOMAIN channels)
             IN  /\ channels' = (fd :> <<>>) @@ channels
                 /\ objs' = (i :> fd) @@ objs
        ELSE UNCHANGED <<channels, objs>>
    /\ budget' = budget - 1
    /\ UNCHANGED <<hubs, procs, badClose, ub>>
    /\ FilesFrame

\* File a{std::move(b)}
FileMoveConstruct(i, j) ==
    /\ budget > 0
    /\ i \in FileIds \ DOMAIN objs
    /\ j \in DOMAIN objs
    /\ LET m == FileMoveCtor(objs[j])
       IN  objs' = (i :> m.self) @@ [objs EXCEPT ![j] = m.other]
    /\ budget' = budget - 1
    /\ UNCHANGED <<hubs, procs, channels, badClose, ub>>
    /\ FilesFrame

\* a = std::move(b); a = std::move(a) changes nothing
FileAssign(i, j) ==
    /\ budget > 0
    /\ i \in DOMAIN objs /\ j \in DOMAIN objs
    /\ IF i # j
       THEN LET m == FileMoveAssign(objs[i], objs[j])
            IN  objs' = [objs EXCEPT ![i] = m.self, ![j] = m.other]
       ELSE objs' = objs
    /\ budget' = budget - 1
    /\ UNCHANGED <<hubs, procs, channels, badClose, ub>>
    /\ FilesFrame

\* the File object goes out of scope
FileDestroy(i) ==
    /\ budget > 0
    /\ i \in DOMAIN objs
    /\ SetSt(FileDtor(objs[i], St))
    /\ objs' = [x \in DOMAIN objs \ {i} |-> objs[x]]
    /\ budget' = budget - 1
    /\ UNCHANGED hubs
    /\ FilesFrame

\* the caller lets go of the Hubs it got from findHubs
ReleaseHubs ==
    /\ budget > 0
    /\ hubs # <<>>
    /\ SetSt(DestroyHubs(hubs, St))
    /\ hubs' = <<>>
    /\ budget' = budget - 1
    /\ UNCHANGED objs
    /\ FilesFrame

FilesInit == OneHub(MaxFileOps)

FilesNext ==
    \/ \E i \in FileIds : FileCtor(i)
    \/ \E i, j \in FileIds : FileMoveConstruct(i, j)
    \/ \E i, j \in FileIds : FileAssign(i, j)
    \/ \E i \in FileIds : FileDestroy(i)
    \/ MoveHubs
    \/ ReleaseHubs

SpecFiles == FilesInit /\ [][FilesNext]_vars

HubPaths == {hubs[i].path : i \in 1..Len(hubs)}
KindsSeen == [i \in 1..Len(enumerated) |-> enumerated[i].kind]
PathsOfKind(ks) == {i \in 1..Len(enumerated) : enumerated[i].kind \in ks}
HubFds == {procs[hubs[i].processor].file : i \in {j \in 1..Len(hubs) : hubs[j].processor \in DOMAIN procs}}

\* the table of the specification, section 4.2
TableType(b) ==
    IF b \in {38, 39} THEN "tiltSensor"
    ELSE IF b \in {102, 103} THEN "servoMotor"
    ELSE IF b \in 177..180 THEN "distanceSensor"
    ELSE IF b \in 202..205 THEN "light"
    ELSE IF b \in (0..3) \cup (239..241) THEN "motor"
    ELSE "none"

\* C1: for every byte b the decoding used by getType is defined and returns
\* tiltSensor for 38-39, servoMotor for 102-103, distanceSensor for 177-180,
\* light for 202-205, motor for 0-3 and 239-241, none for 231 and all the rest.
C1_DecodeTable ==
    (ret.op = "getType" /\ ret.status = "ok") =>
        /\ ret.value.raw \in Byte
        /\ ret.value.type = TableType(ret.value.raw)
        /\ (ret.value.raw = 231 => ret.value.type = "none")

C1_Witness ==
    /\ ret.op = "getType" /\ ret.status = "ok"
    /\ ret.value.raw = 241 /\ ret.value.type = "motor"

\* C2: the report transmitted by writeValue(s, v) carries v at offset 2+s and,
\* at offset 2+(1-s), the value last written to the other slot (0 if none was).
C2_StickyWriteBuffer ==
    (ret.op = "setValue" /\ ret.status = "ok") =>
        LET p == hubs[ret.hub].processor
            s == ret.slot
        IN  /\ Len(ret.report) = BufferSize
            /\ At(ret.report, 2 + s) = ret.value
            /\ At(ret.report, 2 + (1 - s)) = lastWritten[p][(1 - s) + 1]

C2_Witness ==
    /\ ret.op = "setValue" /\ ret.status = "ok"
    /\ ret.slot = 1 /\ ret.value = 20
    /\ lastWritten[hubs[ret.hub].processor] = <<10, 20>>
    /\ At(ret.report, 2) = 10 /\ At(ret.report, 3) = 20

\* C3: on the echoing stub channel, setValue(s, v) followed immediately by
\* getValue(s) returns v, for both slots and every byte v.
C3_RoundTrip ==
    (ret.op = "getValue" /\ ret.status = "ok") =>
        ret.value = lastWritten[hubs[ret.hub].processor][ret.slot + 1]

C3_Witness ==
    /\ ret.op = "getValue" /\ ret.status = "ok"
    /\ ret.slot = 1 /\ ret.value = 200
    /\ lastWritten[hubs[ret.hub].processor] = <<10, 200>>

ValueOffset == <<3, 5>>
TypeOffset == <<4, 6>>

\* C4: readType(s) returns the delivered report's byte at offset 4+2s and
\* readValue(s) the byte at offset 3+2s: offsets 3, 4 for slot 0 and 5, 6 for slot 1.
C4_ReadOffsets ==
    /\ (ret.op = "getType" /\ ret.status = "ok") =>
            ret.value.raw = At(ret.report, TypeOffset[ret.slot + 1])
    /\ (ret.op = "getValue" /\ ret.status = "ok") =>
            ret.value = At(ret.report, ValueOffset[ret.slot + 1])

C4_Witness ==
    /\ ret.op = "getType" /\ ret.status = "ok"
    /\ ret.slot = 1 /\ ret.report = ReportB /\ ret.value.raw = 239

\* C5: no Hub is ever built from a descriptor whose (vendor, product) is not
\* exactly (0x0694, 0x0003), nor from one whose identifier query failed.
C5_OnlyTargetIds ==
    \A i \in 1..Len(hubs) :
        /\ hubs[i].path \in 1..Len(enumerated)
        /\ LET c == enumerated[hubs[i].path]
           IN  c.idq /\ c.idVendor = 1684 /\ c.idProduct = 3

C5_Witness ==
    /\ pc = "returned"
    /\ Len(hubs) = 1
    /\ KindsSeen = <<"badvendor", "noid", "good">>

Rejected == {"noopen", "badvendor", "badproduct"}

\* C6: when every descriptor fails to open, mismatches, or matches and is named,
\* the result holds exactly one Hub per descriptor of the last sort; a failure or
\* rejection never makes the call fail, and the result may be empty.
C6_SkipAndContinue ==
    (PathsOfKind(Rejected \cup {"good"}) = 1..Len(enumerated)) =>
        /\ pc = "returned" =>
            /\ HubPaths = PathsOfKind({"good"})
            /\ Len(hubs) = Cardinality(PathsOfKind({"good"}))
        /\ pc = "failed" => enumErr

C6_Witness ==
    /\ pc = "returned"
    /\ KindsSeen = <<"noopen", "badproduct", "good">>
    /\ Len(hubs) = 1 /\ hubs[1].path = 3

\* C7: an error of the enumeration facility in mid-scan makes the call fail and
\* return no Hubs, also when Hubs had been accumulated.
C7_EnumErrorPropagates ==
    (enumErr /\ Len(enumerated) > 0) => (pc = "failed" /\ hubs = <<>>)

NameFailed == {"noname", "noenc"}

\* C8: a descriptor that passes the filter but whose name cannot be retrieved or
\* converted is skipped alone: no Hub is added for it, the scan is not aborted,
\* and every matching, named descriptor of the scan is in the result.
C8_NameFailureSkips ==
    /\ HubPaths \cap PathsOfKind(NameFailed) = {}
    /\ \A i \in 1..Len(hubs) : enumerated[hubs[i].path].nameq = "ok"
    /\ pc = "returned" => PathsOfKind({"good"}) \subseteq HubPaths
    /\ pc = "failed" => enumErr

C8_Witness ==
    /\ pc = "returned"
    /\ Len(enumerated) = 3
    /\ enumerated[1].kind = "good"
    /\ enumerated[2].kind \in NameFailed
    /\ enumerated[3].kind = "good"
    /\ HubPaths = {1, 3}

\* C9: a channel opened for a descriptor that is then rejected or fails a query
\* is closed before the next descriptor is examined: at every iteration
\* boundary and at return or failure the open channels are those of the Hubs.
C9_ChannelsClosed ==
    /\ ~badClose
    /\ pc \in {"start", "enum", "open", "returned", "failed"} =>
            /\ DOMAIN channels = HubFds
            /\ Cardinality(HubFds) = Len(hubs)
            /\ file = NoFd
    /\ pc \in {"id", "name", "push"} =>
            /\ file \notin HubFds
            /\ DOMAIN channels = HubFds \cup {file}

C9_Witness ==
    /\ pc = "enum"
    /\ KindsSeen = <<"good", "badproduct", "noname">>
    /\ Len(hubs) = 1
    /\ DOMAIN channels = {1}

\* C10: every Hub of the result, after any reads, writes and moves, has exactly
\* two devices, the first with slot 0 and the second with slot 1.
C10_TwoDevices ==
    \A i \in 1..Len(hubs) :
        /\ Len(hubs[i].devices) = 2
        /\ hubs[i].devices[1].slot = 0
        /\ hubs[i].devices[2].slot = 1

C10_Witness ==
    /\ pc = "returned"
    /\ relocated
    /\ budget = 0
    /\ Len(hubs) = 2
    /\ ret.op = "setValue" /\ ret.status = "ok"
    /\ Len(hubs[ret.hub].devices) = 2

\* C11: the Hubs of the result stand in the order in which the enumeration
\* yielded their descriptors: a Hub of an earlier descriptor precedes a Hub of
\* a later one, at every point of the scan and in the returned sequence.
C11_EnumerationOrder ==
    \A i, j \in 1..Len(hubs) : i < j => hubs[i].path < hubs[j].path

C11_Witness ==
    /\ pc = "returned"
    /\ KindsSeen = <<"good", "badproduct", "good">>
    /\ Len(hubs) = 2
    /\ hubs[1].path = 1 /\ hubs[2].path = 3

DeviceOps == {"getType", "getValue", "setValue"}

\* C12: when the read or the write underlying getType, getValue or setValue
\* fails, the operation ends with an error: it reports no success and returns
\* no byte of a report, and it made that one transfer only (no retry).
C12_FailureSurfaced ==
    (ret.op \in DeviceOps /\ ret.failed) =>
        /\ ret.status = "error"
        /\ ret.transfers = 1
        /\ ret.report = <<>>

C12_Witness ==
    /\ ret.op = "getValue" /\ ret.failed /\ ret.status = "error"
    /\ budget = MaxIO - 2
    /\ procs[hubs[ret.hub].processor].readBuffer = ReportA

\* offsets of a write report that no operation ever stores to
IdleOffsets == {0} \cup (4..(BufferSize - 1))

WriteReportShape(r) ==
    /\ Len(r) = BufferSize
    /\ At(r, 1) = 64
    /\ \A off \in IdleOffsets : At(r, off) = 0

\* C13: every write report handed to the channel is 9 bytes with 64 at offset 1
\* and 0 at offsets 0 and 4..8; the write buffer itself is only ever changed at
\* offset 1 and at the offsets 2 and 3 of the two slots.
C13_WriteReportShape ==
    /\ (ret.op = "setValue" /\ ret.status = "ok") => WriteReportShape(ret.report)
    /\ \A fd \in DOMAIN channels : channels[fd] # <<>> => WriteReportShape(channels[fd])
    /\ \A p \in DOMAIN procs :
            /\ \A off \in IdleOffsets : At(procs[p].writeBuffer, off) = 0
            /\ At(procs[p].writeBuffer, 1) \in {0, 64}

C13_Witness ==
    /\ ret.op = "setValue" /\ ret.status = "ok"
    /\ ret.report = <<0, 64, 10, 20, 0, 0, 0, 0, 0>>
    /\ channels[procs[hubs[ret.hub].processor].file] = ret.report

ReadOps == {"getType", "getValue"}

\* the byte a read operation hands back
Returned(r) == IF r.op = "getType" THEN r.value.raw ELSE r.value

\* C14: nothing is cached: every successful getType/getValue makes exactly one
\* read on the channel and returns the byte, at the operation's offset, of the
\* report that very read delivered, whatever an earlier call had read; the
\* report left in the read buffer is that fresh one.
C14_NoCaching ==
    (ret.op \in ReadOps /\ ret.status = "ok") =>
        /\ ret.transfers = 1
        /\ ret.report \in Reports
        /\ procs[hubs[ret.hub].processor].readBuffer = ret.report
        /\ Returned(ret) = At(ret.report, ret.index)
        /\ (prev.op \in ReadOps /\ prev.status = "ok" /\ prev.report # ret.report
                /\ prev.op = ret.op /\ prev.slot = ret.slot)
            => Returned(ret) # Returned(prev)

\* two consecutive calls of the same operation return different values
C14_Witness ==
    /\ prev.op = "getValue" /\ prev.status = "ok" /\ prev.slot = 0
    /\ ret.op = "getValue" /\ ret.status = "ok" /\ ret.slot = 0
    /\ prev.report = ReportA /\ prev.value = 11
    /\ ret.report = ReportB /\ ret.value = 21

\* C15: in every Hub, before and after any move of it, both Devices point to
\* the Processor that this Hub owns; that Processor is alive, no other Hub owns
\* it, and no Device operation ever went through a dangling pointer.
C15_DevicesPointToOwnProcessor ==
    /\ \A i \in 1..Len(hubs) :
            /\ hubs[i].processor # NullPtr
            /\ hubs[i].processor \in DOMAIN procs
            /\ \A d \in 1..Len(hubs[i].devices) :
                    hubs[i].devices[d].processor = hubs[i].processor
            /\ \A j \in 1..Len(hubs) : j # i => hubs[j].processor # hubs[i].processor
    /\ ~ub
    /\ ret.status # "ub"

C15_Witness ==
    /\ pc = "returned"
    /\ relocated
    /\ Len(hubs) = 2
    /\ ret.op = "getValue" /\ ret.status = "ok" /\ ret.hub = 2
    /\ hubs[2].devices[2].processor = hubs[2].processor
    /\ procs[hubs[2].processor].readBuffer = ret.report

\* at most one transfer is in progress on the channel
OneTransfer == thr.inflight <= 1

\* every finished read returned the byte of the report its own read delivered
OwnReport ==
    \A t \in Threads :
        LET d == thr.t[t].done
        IN  (d.op \in ReadOps /\ d.status = "ok") =>
                d.value = At(d.report, ReadIndex(d.op, d.slot))

\* every transmitted write report carried the values last written to both slots
LatestValues ==
    \A t \in Threads :
        LET d == thr.t[t].done
        IN  (d.op = "setValue" /\ d.status = "ok") =>
                /\ At(d.report, 2) = d.latest[1]
                /\ At(d.report, 3) = d.latest[2]

\* C16: when the caller puts every operation on the Devices of a Hub under one
\* lock of that Hub, at most one transfer is in flight on the Hub's channel,
\* every read returns a byte of its own report, and every transmitted write
\* report carries the values last written to both slots.
C16_SerializedGuarantees ==
    (thr # NoThreads /\ thr.locking) => (OneTransfer /\ OwnReport /\ LatestValues)

C16_Witness ==
    /\ thr # NoThreads /\ thr.locking /\ thr.lock = 0
    /\ thr.t[1].done.op = "setValue" /\ thr.t[1].done.status = "ok"
    /\ thr.t[1].done.slot = 0 /\ thr.t[1].done.latest = <<10, 0>>
    /\ thr.t[2].done.op = "setValue" /\ thr.t[2].done.status = "ok"
    /\ thr.t[2].done.report = <<0, 64, 10, 20, 0, 0, 0, 0, 0>>
    /\ thr.t[2].done.latest = <<10, 20>>

\* without the lock each of the three guarantees is lost in some run
C16_UnserializedOverlap == (thr # NoThreads /\ ~thr.locking) => OneTransfer
C16_UnserializedOwnReport == (thr # NoThreads /\ ~thr.locking) => OwnReport
C16_UnserializedLatest == (thr # NoThreads /\ ~thr.locking) => LatestValues

Examining == {"open", "id", "name", "push"}

\* the descriptor under examination is the one the enumeration yielded last,
\* and the enumeration never yields a descriptor twice
ExaminedOnce ==
    /\ \A i \in 1..Len(enumerated) : enumerated[i].path = i
    /\ pc \in Examining => (enumerated # <<>> /\ cur = enumerated[Len(enumerated)])

\* every call of findHubs on a finite enumeration returns or fails
C17_Terminates == <>(pc \in {"returned", "failed"})

\* C17: discovery examines each descriptor at most once; it ends by returning
\* the accumulated Hubs or by failing on an enumeration error, and it returns
\* normally only when the enumeration is exhausted, not when it broke off.
C17_ReturnsOnlyWhenExhausted ==
    /\ ExaminedOnce
    /\ pc = "failed" => (enumErr /\ hubs = <<>>)
    /\ pc = "returned" => ~enumErr

\* the parts of C17 that do not depend on how the enumeration ended
C17_ExceptBrokenEnumeration ==
    /\ ExaminedOnce
    /\ pc = "failed" => (enumErr /\ hubs = <<>>)
    /\ (pc = "returned" /\ enumErr) => platform = "linux"

\* the File objects that hold fd: those of the caller and those inside Processors
Holders(fd) ==
    Cardinality({i \in DOMAIN objs : objs[i] = fd})
        + Cardinality({p \in DOMAIN procs : procs[p].file = fd})

HeldFds ==
    ({objs[i] : i \in DOMAIN objs} \cup {procs[p].file : p \in DOMAIN procs}) \ {NoFd}

\* C18: under any sequence of File construction, move construction, move
\* assignment and destruction and of Hub moves and destruction, every open
\* channel handle is held by exactly one File object, no File holds a closed
\* handle, and no handle is closed twice; so once every owner is destroyed no
\* handle is left open.
C18_ExclusiveOwnership ==
    /\ ~badClose
    /\ HeldFds \subseteq DOMAIN channels
    /\ \A fd \in DOMAIN channels : Holders(fd) = 1

\* the same, for runs in which no File that holds a handle is assigned to
C18_ExceptAssignOverOpen ==
    \/ \E fd \in DOMAIN channels : Holders(fd) = 0
    \/ C18_ExclusiveOwnership

\* a handle nobody holds stays open for good once it has lost its File
C18_LeakIsPermanent ==
    [][\A fd \in DOMAIN channels : Holders(fd) = 0 => (fd \in DOMAIN channels' /\ Holders(fd)' = 0)]_vars

\* C19: a writeValue(s, v) whose transmission fails leaves v at offset 2+s and
\* 64 at offset 1 of the write buffer and transmits nothing; the next write,
\* when it goes to the other slot and succeeds, transmits v for slot s.
C19_FailedWriteSticks ==
    /\ (ret.op = "setValue" /\ ret.status = "error") =>
            LET wb == procs[hubs[ret.hub].processor].writeBuffer
            IN  /\ ret.failed /\ ret.report = <<>>
                /\ At(wb, 2 + ret.slot) = ret.value
                /\ At(wb, 1) = 64
    /\ (/\ prev.op = "setValue" /\ prev.status = "error"
        /\ ret.op = "setValue" /\ ret.status = "ok"
        /\ ret.hub = prev.hub /\ ret.slot = 1 - prev.slot) =>
            /\ At(ret.report, 2 + prev.slot) = prev.value
            /\ At(ret.report, 2 + ret.slot) = ret.value

C19_Witness ==
    /\ prev.op = "setValue" /\ prev.status = "error"
    /\ prev.slot = 0 /\ prev.value = 10
    /\ ret.op = "setValue" /\ ret.status = "ok"
    /\ ret.slot = 1 /\ ret.value = 20
    /\ ret.report = <<0, 64, 10, 20, 0, 0, 0, 0, 0>>
    /\ channels[procs[hubs[ret.hub].processor].file] = ret.report
    /\ budget = MaxSeq - 2

\* the offsets of a 9-byte buffer
BufferOffsets == 0..(BufferSize - 1)

\* C20: every Device of a Hub has slot 0 or 1, so the index a Device operation
\* uses on the 9-byte buffers is 3 or 5 (readValue), 4 or 6 (readType) and 2 or
\* 3 (writeValue): never outside the buffer.
C20_IndicesInBounds ==
    /\ \A i \in 1..Len(hubs) : \A d \in 1..Len(hubs[i].devices) :
            LET s == hubs[i].devices[d].slot
            IN  /\ s \in Slots
                /\ {3 + s * 2, 4 + s * 2} \subseteq {3, 4, 5, 6}
                /\ 2 + s \in {2, 3}
    /\ \A p \in DOMAIN procs :
            Len(procs[p].readBuffer) = BufferSize /\ Len(procs[p].writeBuffer) = BufferSize
    /\ (ret.op \in DeviceOps /\ ret.status # "ub") =>
            /\ ret.index \in BufferOffsets
            /\ ret.op = "getValue" => ret.index \in {3, 5}
            /\ ret.op = "getType" => ret.index \in {4, 6}
            /\ ret.op = "setValue" => ret.index \in {2, 3}

C20_Witness ==
    /\ pc = "returned"
    /\ Len(hubs) = 2
    /\ ret.op = "getType" /\ ret.status = "ok"
    /\ ret.hub = 2 /\ ret.slot = 1 /\ ret.index = 6
    /\ ret.value.raw = At(ret.report, 6)

====
